---- MODULE Spec2Model ----
(***************************************************************************)
(* TheRightAClock (SleepCycle-Alarm) front end: the form handler, the      *)
(* validator, the network call with its 60 second abort timer, the         *)
(* presentation of results and errors, the countdown of every result card, *)
(* the notification opt-in and the calendar export.                        *)
(*                                                                         *)
(* Texts (messages, form field contents) are sequences: a form field is a  *)
(* sequence of characters, a message is a sequence of words.  A JavaScript *)
(* number is a record [nan, v]: NaN is [nan |-> TRUE, v |-> 0].            *)
(***************************************************************************)
EXTENDS Integers, Sequences, FiniteSets, TLC

VARIABLES
    formData,        \* handleSubmit: const formData = getFormData()
    validation,      \* handleSubmit: const validation = validateFormData(formData)
    errorVisible,    \* errorMessage.style.display = "block"
    errorText,       \* errorText.textContent
    resultsVisible,  \* resultsSection.style.display = "block"
    resultsWakeTime, \* resultsWakeTime.textContent
    cards,           \* children of resultsContainer, in document order
    btnDisabled,     \* calculateBtn.disabled
    btnLoading,      \* calculateBtn.classList contains "loading"
    fetchState,      \* position of calculateBedtimes: idle, pending (await fetch), body (await response.json())
    controller,      \* identity of the AbortController of the latest call
    requestBody,     \* JSON body of the latest request put on the network
    abortTimers,     \* live setTimeout(() => controller.abort(), 60000) timers
    response,        \* the latest thing the network produced for the latest call
    submits,         \* number of submit events handled
    calls,           \* number of fetch calls started
    now,             \* the wall clock, new Date()
    intervals,       \* live setInterval timers of the countdowns
    countdownIntervals, \* let countdownIntervals = {}: bedtime text to interval id
    created,         \* number of cards created so far; a card and its interval share their id
    notificationApi, \* "Notification" in window
    permission,      \* Notification.permission
    notificationPermission, \* let notificationPermission = null
    prompts,         \* pending Notification.requestPermission() promises
    notifications,   \* the Notification objects constructed so far
    alerts,          \* number of alert() boxes shown
    uncaught,        \* errors thrown out of an event handler
    ics              \* the latest calendar file generated

\* what the form, the network call and the result and error areas consist of
formVars == <<formData, validation, errorVisible, errorText, resultsVisible,
              resultsWakeTime, btnDisabled, btnLoading, fetchState,
              controller, requestBody, abortTimers, response, submits, calls>>

\* what the countdowns consist of
countdownVars == <<intervals, countdownIntervals, created>>

\* what the notification opt-in consists of
notificationVars == <<notificationApi, permission, notificationPermission,
                      prompts, alerts, uncaught>>

vars == <<formVars, cards, now, countdownVars, notificationVars,
          notifications, ics>>

----------------------------------------------------------------------------
(* Bounds of the model *)

MaxSubmits == 3
TickMs == 10000

\* the countdowns are followed until this minute after the midnight of the
\* day the page was loaded (22:47 of the next day)
MaxMinutes == 2807

\* the user acts before this minute after midnight (22:47)
UserMinutes == 1367

\* presses of alert controls
MaxPresses == 3

\* the alert controls are followed until this minute after midnight (22:45)
NotifyMinutes == 1365

----------------------------------------------------------------------------
(* JavaScript numbers and texts *)

NaN == [nan |-> TRUE, v |-> 0]

Num(n) == [nan |-> FALSE, v |-> n]

\* a < b in JavaScript: false as soon as one side is NaN
JsLt(a, b) == ~a.nan /\ ~b.nan /\ a.v < b.v

\* a > b in JavaScript: false as soon as one side is NaN
JsGt(a, b) == ~a.nan /\ ~b.nan /\ a.v > b.v

Digits == {"0", "1", "2", "3", "4", "5", "6", "7", "8", "9"}

DigitVal(c) ==
    CASE c = "0" -> 0 [] c = "1" -> 1 [] c = "2" -> 2 [] c = "3" -> 3
      [] c = "4" -> 4 [] c = "5" -> 5 [] c = "6" -> 6 [] c = "7" -> 7
      [] c = "8" -> 8 [] c = "9" -> 9

\* the text without its leading white space
RECURSIVE SkipSpace(_)
SkipSpace(s) ==
    IF s # <<>> /\ Head(s) = " " THEN SkipSpace(Tail(s)) ELSE s

\* value of the longest prefix of digits of s, continuing from acc
RECURSIVE DigitPrefix(_, _)
DigitPrefix(s, acc) ==
    IF s # <<>> /\ Head(s) \in Digits
    THEN DigitPrefix(Tail(s), 10 * acc + DigitVal(Head(s)))
    ELSE acc

\* parseInt(text): white space, an optional sign, then digits up to the first
\* other character; NaN when no digit stands there
parseInt(text) ==
    LET s == SkipSpace(text)
        neg == s # <<>> /\ Head(s) = "-"
        t == IF s # <<>> /\ Head(s) \in {"-", "+"} THEN Tail(s) ELSE s
    IN  IF t = <<>> \/ Head(t) \notin Digits
        THEN NaN
        ELSE Num((IF neg THEN -1 ELSE 1) * DigitPrefix(t, 0))

\* s.includes(sub), on words
Includes(s, sub) ==
    \E i \in 0..(Len(s) - Len(sub)) :
        \A j \in 1..Len(sub) : s[i + j] = sub[j]

----------------------------------------------------------------------------
(* Validator *)

MIN_LATENCY == 0
MAX_LATENCY == 60
MIN_CYCLE_LENGTH == 60
MAX_CYCLE_LENGTH == 110
MIN_CYCLES == 1
MAX_CYCLES == 10

ErrWakeTime == <<"Please", "enter", "a", "wake", "time">>
ErrLatency == <<"Sleep", "latency", "must", "be", "between", "0", "and", "60", "minutes">>
ErrCycleLength == <<"Cycle", "length", "must", "be", "between", "60", "and", "110", "minutes">>
ErrMinCycles == <<"Min", "cycles", "must", "be", "between", "1", "and", "10">>
ErrMaxCycles == <<"Max", "cycles", "must", "be", "between", "1", "and", "10">>
ErrMinMax == <<"Min", "cycles", "must", "be", "less", "than", "or", "equal", "to", "max", "cycles">>

Valid == [valid |-> TRUE, error |-> <<>>]

Invalid(reason) == [valid |-> FALSE, error |-> reason]

\* no validation has run yet
NoValidation == [valid |-> FALSE, error |-> <<>>]

getFormData(form) ==
    [wake_time |-> form.wake,
     sleep_latency_min |-> parseInt(form.latency),
     cycle_length_min |-> parseInt(form.cycle),
     min_cycles |-> parseInt(form.min),
     max_cycles |-> parseInt(form.max)]

validateFormData_SwappedChecks(data) ==
    IF data.wake_time = <<>>
    THEN Invalid(ErrWakeTime)
    ELSE IF JsLt(data.cycle_length_min, Num(MIN_CYCLE_LENGTH)) \/ JsGt(data.cycle_length_min, Num(MAX_CYCLE_LENGTH))
    THEN Invalid(ErrCycleLength)
    ELSE IF JsLt(data.sleep_latency_min, Num(MIN_LATENCY)) \/ JsGt(data.sleep_latency_min, Num(MAX_LATENCY))
    THEN Invalid(ErrLatency)
    ELSE IF JsLt(data.min_cycles, Num(MIN_CYCLES)) \/ JsGt(data.min_cycles, Num(MAX_CYCLES))
    THEN Invalid(ErrMinCycles)
    ELSE IF JsLt(data.max_cycles, Num(MIN_CYCLES)) \/ JsGt(data.max_cycles, Num(MAX_CYCLES))
    THEN Invalid(ErrMaxCycles)
    ELSE IF JsGt(data.min_cycles, data.max_cycles)
    THEN Invalid(ErrMinMax)
    ELSE Valid

validateFormData(data) ==
    IF data.wake_time = <<>>
    THEN Invalid(ErrWakeTime)
    ELSE IF JsLt(data.sleep_latency_min, Num(MIN_LATENCY)) \/ JsGt(data.sleep_latency_min, Num(MAX_LATENCY))
    THEN Invalid(ErrLatency)
    ELSE IF JsLt(data.cycle_length_min, Num(MIN_CYCLE_LENGTH)) \/ JsGt(data.cycle_length_min, Num(MAX_CYCLE_LENGTH))
    THEN Invalid(ErrCycleLength)
    ELSE IF JsLt(data.min_cycles, Num(MIN_CYCLES)) \/ JsGt(data.min_cycles, Num(MAX_CYCLES))
    THEN Invalid(ErrMinCycles)
    ELSE IF JsLt(data.max_cycles, Num(MIN_CYCLES)) \/ JsGt(data.max_cycles, Num(MAX_CYCLES))
    THEN Invalid(ErrMaxCycles)
    ELSE IF JsGt(data.min_cycles, data.max_cycles)
    THEN Invalid(ErrMinMax)
    ELSE Valid

----------------------------------------------------------------------------
(* Form contents the user can submit *)

WakeTexts == {<<>>, <<"0", "7", ":", "3", "0">>}

LatencyTexts == {<<>>, <<"-", "1">>, <<"0">>, <<"6", "0">>, <<"6", "1">>, <<"a", "b">>}

CycleTexts == {<<>>, <<"5", "9">>, <<"6", "0">>, <<"1", "1", "0">>, <<"1", "1", "1">>}

MinTexts == {<<>>, <<"0">>, <<"1">>, <<"5">>, <<"1", "0">>, <<"1", "1">>}

MaxTexts == {<<>>, <<"0">>, <<"1">>, <<"4">>, <<"1", "0">>, <<"1", "1">>, <<" ", "7", "x">>}

\* every form content of the model
AllForms ==
    [wake : WakeTexts, latency : LatencyTexts, cycle : CycleTexts,
     min : MinTexts, max : MaxTexts]

DefaultForm ==
    [wake |-> <<"0", "7", ":", "3", "0">>, latency |-> <<"1", "5">>, cycle |-> <<"9", "0">>,
     min |-> <<"4">>, max |-> <<"6">>]

\* the form contents submitted in the model of the whole page
SubmitForms ==
    {DefaultForm,
     [DefaultForm EXCEPT !.wake = <<>>],
     [DefaultForm EXCEPT !.latency = <<"6", "1">>],
     [DefaultForm EXCEPT !.latency = <<>>],
     [DefaultForm EXCEPT !.min = <<"7">>]}

NoFormData ==
    [wake_time |-> <<>>, sleep_latency_min |-> NaN, cycle_length_min |-> NaN,
     min_cycles |-> NaN, max_cycles |-> NaN]

----------------------------------------------------------------------------
(* Network call *)

TIMEOUT_MS == 60000

TimeoutMsg ==
    <<"Request", "timeout.", "The", "server", "might", "be", "waking", "up",
      "(can", "take", "30-60", "seconds", "on", "free", "hosting).",
      "Please", "try", "again.">>

ConnectMsg ==
    <<"Cannot", "connect", "to", "server.", "It", "might", "be", "waking",
      "up", "from", "sleep", "(takes", "30-60", "seconds", "on", "free",
      "hosting).", "Please", "wait", "and", "try", "again.">>

GenericMsg == <<"Failed", "to", "calculate", "bedtimes.", "Please", "try", "again.">>

FailedToFetch == <<"Failed", "to", "fetch">>

ApiErrorMsg(status) == <<"API", "error:", ToString(status)>>

Error(name, message) == [name |-> name, message |-> message]

NoError == Error("", <<>>)

\* what controller.abort() makes the pending fetch reject with
AbortError == Error("AbortError", <<"The", "user", "aborted", "a", "request.">>)

\* what fetch rejects with when the server cannot be reached, per browser
NetworkErrors ==
    {Error("TypeError", FailedToFetch),
     Error("TypeError", <<"NetworkError", "when", "attempting", "to", "fetch", "resource.">>),
     Error("TypeError", <<"Load", "failed">>)}

\* what response.json() throws on a body that is not JSON
SyntaxError == Error("SyntaxError", <<"Unexpected", "token", "<", "in", "JSON", "at", "position", "0">>)

\* reading a property of null
NullTypeError == Error("TypeError", <<"Cannot", "read", "properties", "of", "null">>)

\* calling forEach on undefined
UndefinedTypeError == Error("TypeError", <<"Cannot", "read", "properties", "of", "undefined">>)

\* JSON.stringify of a number: NaN is written as null
JsonNumber(x) == [isNull |-> x.nan, v |-> x.v]

\* JSON.stringify(data)
Stringify(data) ==
    [wake_time |-> data.wake_time,
     sleep_latency_min |-> JsonNumber(data.sleep_latency_min),
     cycle_length_min |-> JsonNumber(data.cycle_length_min),
     min_cycles |-> JsonNumber(data.min_cycles),
     max_cycles |-> JsonNumber(data.max_cycles)]

NoRequest == Stringify(NoFormData)

\* response.ok
Ok(status) == status \in 200..299

Statuses == {200, 400, 422, 500}

\* BedtimeOption, the fields the page reads
Option(cycles, bedtime, recommended) ==
    [cycles |-> cycles, bedtime |-> bedtime, recommended |-> recommended]

OptionLists ==
    {<<>>,
     <<Option(6, <<"2", "2", ":", "4", "5">>, FALSE), Option(5, <<"0", "0", ":", "1", "5">>, TRUE), Option(4, <<"0", "1", ":", "4", "5">>, FALSE)>>,
     <<Option(2, <<"0", "4", ":", "1", "5">>, FALSE), Option(1, <<"0", "5", ":", "4", "5">>, FALSE)>>,
     <<Option(6, <<"2", "2", ":", "4", "5">>, FALSE), Option(5, <<"2", "2", ":", "4", "5">>, TRUE)>>}

\* the detail member of an error payload
NoDetail == [type |-> "undefined", text |-> <<>>]

StringDetail(text) == [type |-> "string", text |-> text]

\* FastAPI request validation errors carry a list of objects as detail
ArrayDetail == [type |-> "array", text |-> <<"[object", "Object]">>]

DetailTexts ==
    {<<>>,
     <<"min_cycles", "must", "be", "less", "than", "or", "equal", "to", "max_cycles">>,
     FailedToFetch,
     <<"upstream", "NetworkError", "in", "calculator">>}

\* a response body: text that is no JSON, JSON null, a JSON scalar or a JSON object
Body(kind, detail, hasOptions, options) ==
    [kind |-> kind, detail |-> detail, hasOptions |-> hasOptions,
     wake_time |-> <<"0", "7", ":", "3", "0">>, options |-> options]

NoBody == Body("none", NoDetail, FALSE, <<>>)

Bodies ==
    {Body("text", NoDetail, FALSE, <<>>),
     Body("null", NoDetail, FALSE, <<>>),
     Body("scalar", NoDetail, FALSE, <<>>),
     Body("object", NoDetail, FALSE, <<>>),
     Body("object", ArrayDetail, FALSE, <<>>)}
    \cup {Body("object", StringDetail(d), FALSE, <<>>) : d \in DetailTexts}
    \cup {Body("object", NoDetail, TRUE, o) : o \in OptionLists}

\* String(detail), the message new Error(detail) gets
DetailString(detail) == detail.text

\* detail || fallback
Truthy(detail) ==
    \/ detail.type = "array"
    \/ detail.type = "string" /\ detail.text # <<>>

----------------------------------------------------------------------------
(* Dates.  A Date is a number of milliseconds since the local midnight of  *)
(* the day the page was loaded; the local time zone changes no clock       *)
(* during the days of the model, so every local day has 24 hours.          *)

MS_PER_SECOND == 1000
SECONDS_PER_MINUTE == 60
MINUTES_PER_HOUR == 60
HOURS_PER_DAY == 24

MsPerMinute == MS_PER_SECOND * SECONDS_PER_MINUTE

MsPerHour == MsPerMinute * MINUTES_PER_HOUR

MsPerDay == MsPerHour * HOURS_PER_DAY

\* the Date of the given local day and clock time
At(day, h, m, s) == day * MsPerDay + h * MsPerHour + m * MsPerMinute + s * MS_PER_SECOND

\* date.setHours(h, m, 0, 0): the same local day at h:m:00.000
setHours(date, h, m) == (date \div MsPerDay) * MsPerDay + h * MsPerHour + m * MsPerMinute

\* date.setDate(date.getDate() + n): the same clock time n local days later
addDays(date, n) == date + n * MsPerDay

\* Math.floor(a / b) for b > 0
Floor(a, b) == a \div b

\* a % b in JavaScript for b > 0: the result has the sign of a
JsRem(a, b) == IF a >= 0 THEN a % b ELSE -((-a) % b)

\* text.split(":"): the pieces between the colons
RECURSIVE split(_, _)
split(text, piece) ==
    IF text = <<>> THEN <<piece>>
    ELSE IF Head(text) = ":" THEN <<piece>> \o split(Tail(text), <<>>)
    ELSE split(Tail(text), Append(piece, Head(text)))

\* Number(text) of a text of digits (the empty text gives 0)
Number(text) == DigitPrefix(text, 0)

\* const [hours, minutes] = text.split(":").map(Number)
ClockOf(text) ==
    LET parts == split(text, <<>>)
    IN  [hours |-> Number(parts[1]), minutes |-> Number(parts[2])]

\* minutes after midnight of a clock text
MinuteOfDay(text) == ClockOf(text).hours * MINUTES_PER_HOUR + ClockOf(text).minutes

MinutesPerDay == MINUTES_PER_HOUR * HOURS_PER_DAY

\* text.replace(":", ""): the text without its first colon
RECURSIVE replaceColon(_)
replaceColon(text) ==
    IF text = <<>> THEN <<>>
    ELSE IF Head(text) = ":" THEN Tail(text)
    ELSE <<Head(text)>> \o replaceColon(Tail(text))

----------------------------------------------------------------------------
(* Presentation helpers *)

showError(message) == errorText' = message /\ errorVisible' = TRUE

hideError == errorVisible' = FALSE

hideResults == resultsVisible' = FALSE

setLoadingState(loading) == btnDisabled' = loading /\ btnLoading' = loading

----------------------------------------------------------------------------
(* Countdown of a card *)

WRAP_HOURS == 12
INTERVAL_MS == 60000

getTimeUntilBedtime_AlwaysTonight(bedtime, t) ==
    LET clock == ClockOf(bedtime)
        today == setHours(t, clock.hours, clock.minutes)
        bedtimeDate == IF today - t < 0 THEN addDays(today, 1) ELSE today
        totalMinutes == Floor(bedtimeDate - t, MsPerMinute)
    IN  [hours |-> Floor(totalMinutes, MINUTES_PER_HOUR),
         minutes |-> JsRem(totalMinutes, MINUTES_PER_HOUR),
         totalMinutes |-> totalMinutes,
         isPast |-> totalMinutes < 0]

\* getTimeUntilBedtime(bedtime), called when the clock shows t
getTimeUntilBedtime(bedtime, t) ==
    LET clock == ClockOf(bedtime)
        today == setHours(t, clock.hours, clock.minutes)
        bedtimeDate ==
            IF today - t < 0 /\ today - t > -(WRAP_HOURS * MsPerHour)
            THEN addDays(today, 1)
            ELSE today
        totalMinutes == Floor(bedtimeDate - t, MsPerMinute)
    IN  [hours |-> Floor(totalMinutes, MINUTES_PER_HOUR),
         minutes |-> JsRem(totalMinutes, MINUTES_PER_HOUR),
         totalMinutes |-> totalMinutes,
         isPast |-> totalMinutes < 0]

\* new Notification(...): the object, with the permission the browser holds
\* for the page when it is made
Notification(notes, kind, bedtime, card, held) ==
    notes \cup
    {[kind |-> kind, bedtime |-> bedtime, card |-> card,
      nth |-> Cardinality({n \in notes : n.kind = kind /\ n.card = card}) + 1,
      permission |-> held]}

sendBedtimeNotification_Unchecked(notes, bedtime, card) ==
    Notification(notes, "bedtime", bedtime, card, permission)

\* a bedtime notification only for a card whose own alert control is marked
\* enabled
sendBedtimeNotification_OptedIn(notes, bedtime, card) ==
    IF /\ notificationPermission = "granted"
       /\ \E i \in 1..Len(cards) : cards[i].id = card /\ cards[i].alert.enabled
    THEN Notification(notes, "bedtime", bedtime, card, permission)
    ELSE notes

\* sendBedtimeNotification(bedtime), for the countdown of the given card
sendBedtimeNotification(notes, bedtime, card) ==
    IF notificationPermission = "granted"
    THEN Notification(notes, "bedtime", bedtime, card, permission)
    ELSE notes

\* updateCountdown(element, bedtime) at t: what the element shows, whether
\* the bedtime notification is sent, and the value returned
updateCountdown(bedtime, t) ==
    LET until == getTimeUntilBedtime(bedtime, t)
    IN  IF until.isPast
        THEN [class |-> "past", until |-> until, at |-> t,
              notify |-> FALSE, continue |-> FALSE]
        ELSE IF until.totalMinutes = 0
        THEN [class |-> "now", until |-> until, at |-> t,
              notify |-> TRUE, continue |-> FALSE]
        ELSE [class |-> "active", until |-> until, at |-> t,
              notify |-> FALSE, continue |-> TRUE]

\* what an element shows of an evaluation
Shown(u) == [class |-> u.class, until |-> u.until, at |-> u.at]

\* the alert control of a new card
NewAlertButton == [enabled |-> FALSE, disabled |-> FALSE, presses |-> 0]

\* Object.values(map)
Values(map) == {map[k] : k \in DOMAIN map}

\* map[key] = value
Put(map, key, value) ==
    [k \in DOMAIN map \cup {key} |-> IF k = key THEN value ELSE map[k]]

\* delete map[key]
Delete(map, key) == [k \in DOMAIN map \ {key} |-> map[k]]

\* the page as far as rendering changes it
Page ==
    [cards |-> cards, intervals |-> intervals,
     countdownIntervals |-> countdownIntervals, created |-> created,
     notifications |-> notifications]

\* createResultCard(option, wakeTime, isFirst) followed by appendChild: the
\* card, its first countdown evaluation, and its interval timer, which is
\* set whatever the first evaluation returned
createResultCard(page, option, wakeTime) ==
    LET id == page.created + 1
        first == updateCountdown(option.bedtime, now)
        card == [id |-> id, bedtime |-> option.bedtime, cycles |-> option.cycles,
                 recommended |-> option.recommended, wakeTime |-> wakeTime,
                 countdown |-> Shown(first), alert |-> NewAlertButton]
    IN  [cards |-> Append(page.cards, card),
         intervals |-> page.intervals \cup
                       {[id |-> id, bedtime |-> option.bedtime, age |-> 0]},
         countdownIntervals |-> Put(page.countdownIntervals, option.bedtime, id),
         created |-> id,
         notifications |->
             IF first.notify
             THEN sendBedtimeNotification(page.notifications, option.bedtime, id)
             ELSE page.notifications]

\* data.options.forEach(...)
RECURSIVE forEach(_, _, _)
forEach(page, options, wakeTime) ==
    IF options = <<>> THEN page
    ELSE forEach(createResultCard(page, Head(options), wakeTime),
                 Tail(options), wakeTime)

\* displayResults without the statement that empties the container
Cleared_KeepsCards ==
    [Page EXCEPT !.intervals = {t \in intervals : t.id \notin Values(countdownIntervals)},
                 !.countdownIntervals = <<>>]

\* the first statements of displayResults: the container is emptied, the
\* timers the map holds are cleared, the map is emptied
Cleared ==
    [Page EXCEPT !.cards = <<>>,
                 !.intervals = {t \in intervals : t.id \notin Values(countdownIntervals)},
                 !.countdownIntervals = <<>>]

\* the page displayResults(data) leaves: a body without an option list
\* fails before any card
Rendered(data) ==
    IF data.kind = "object" /\ data.hasOptions
    THEN forEach(Cleared, data.options, data.wake_time)
    ELSE Cleared

\* the cards displayResults leaves in resultsContainer
RenderedCards(data) == Rendered(data).cards

\* displayResults(data), up to the statement that shows the section
displayResults(data) ==
    /\ cards' = Rendered(data).cards
    /\ intervals' = Rendered(data).intervals
    /\ countdownIntervals' = Rendered(data).countdownIntervals
    /\ created' = Rendered(data).created
    /\ notifications' = Rendered(data).notifications
    /\ resultsWakeTime' =
           IF data.kind = "null" THEN resultsWakeTime
           ELSE IF data.kind = "object" THEN data.wake_time
           ELSE <<>>

----------------------------------------------------------------------------
(* Notification opt-in and calendar export *)

\* a pending Notification.requestPermission(): the call of init() (by 0), or
\* the call made by the given press of the alert control of a card
Prompt(by, card, bedtime) == [by |-> by, card |-> card, bedtime |-> bedtime]

InitPrompt == Prompt(0, 0, <<>>)

NoIcs == [uid |-> -1, dtstamp |-> -1, dtstart |-> -1, dtend |-> -1,
          trigger |-> 0, cycles |-> 0, bedtime |-> <<>>, wakeTime |-> <<>>,
          filename |-> <<>>]

ALARM_MINUTES == 15

\* evaluating the identifier Notification where the platform has none
ReferenceError == Error("ReferenceError", <<"Notification", "is", "not", "defined">>)

\* the index in cards of the card with the given id, 0 when it is no longer
\* in the container
IndexOf(id) ==
    IF \E i \in 1..Len(cards) : cards[i].id = id
    THEN CHOOSE i \in 1..Len(cards) : cards[i].id = id
    ELSE 0

\* button.textContent = "Alert Enabled"; button.classList.add("enabled")
MarkEnabled(id, disable) ==
    IF IndexOf(id) = 0 THEN cards
    ELSE [cards EXCEPT ![IndexOf(id)].alert.enabled = TRUE,
                       ![IndexOf(id)].alert.disabled = @ \/ disable]

\* toggleNotifications without the test for a blocked permission: it asks
\* for the permission whenever it is not granted
toggleNotifications_AsksAgain(i) ==
    LET card == cards[i]
        pressed == [cards EXCEPT ![i].alert.presses = @ + 1]
    IN  IF notificationPermission # "granted"
        THEN IF ~notificationApi
             THEN /\ uncaught' = uncaught \cup {ReferenceError}
                  /\ cards' = pressed
                  /\ UNCHANGED <<alerts, prompts, notifications>>
             ELSE /\ prompts' = prompts \cup
                          {Prompt(card.alert.presses + 1, card.id, card.bedtime)}
                  /\ cards' = pressed
                  /\ UNCHANGED <<uncaught, alerts, notifications>>
        ELSE /\ cards' = [pressed EXCEPT ![i].alert.enabled = TRUE,
                                           ![i].alert.disabled = TRUE]
             /\ notifications' = Notification(notifications, "enabled", card.bedtime,
                                           card.id, permission)
             /\ UNCHANGED <<uncaught, alerts, prompts>>

\* toggleNotifications(bedtime, button) for the alert control of cards[i]
toggleNotifications(i) ==
    LET card == cards[i]
        pressed == [cards EXCEPT ![i].alert.presses = @ + 1]
    IN  IF notificationPermission # "granted"
        THEN IF ~notificationApi
             THEN /\ uncaught' = uncaught \cup {ReferenceError}
                  /\ cards' = pressed
                  /\ UNCHANGED <<alerts, prompts, notifications>>
             ELSE IF permission = "denied"
             THEN /\ alerts' = alerts + 1
                  /\ cards' = pressed
                  /\ UNCHANGED <<uncaught, prompts, notifications>>
             ELSE /\ prompts' = prompts \cup
                          {Prompt(card.alert.presses + 1, card.id, card.bedtime)}
                  /\ cards' = pressed
                  /\ UNCHANGED <<uncaught, alerts, notifications>>
        ELSE /\ cards' = [pressed EXCEPT ![i].alert.enabled = TRUE,
                                           ![i].alert.disabled = TRUE]
             /\ notifications' = Notification(notifications, "enabled", card.bedtime,
                                           card.id, permission)
             /\ UNCHANGED <<uncaught, alerts, prompts>>

\* a requestPermission() promise settles with the given answer
requestPermission_then(p, answer) ==
    /\ notificationPermission' = answer
    /\ IF p = InitPrompt
       THEN UNCHANGED <<cards, notifications, alerts>>
       ELSE IF answer = "granted"
       THEN /\ cards' = MarkEnabled(p.card, FALSE)
            /\ notifications' = Notification(notifications, "enabled", p.bedtime,
                                          p.card, permission')
            /\ UNCHANGED alerts
       ELSE /\ alerts' = alerts + 1
            /\ UNCHANGED <<cards, notifications>>

\* formatDate(date): toISOString() cut after the seconds, with the
\* punctuation removed; here the number of whole seconds of the Date
formatDate(date) == Floor(date, MS_PER_SECOND)

generateICSFile_NeverTomorrow(bedtime, wakeTime, cycles, t) ==
    LET bed == ClockOf(bedtime)
        wake == ClockOf(wakeTime)
        bedtimeDate == setHours(t, bed.hours, bed.minutes)
        wakeTimeDate == setHours(addDays(bedtimeDate, 1), wake.hours, wake.minutes)
    IN  [uid |-> t,
         dtstamp |-> formatDate(t),
         dtstart |-> formatDate(bedtimeDate),
         dtend |-> formatDate(wakeTimeDate),
         trigger |-> -ALARM_MINUTES,
         cycles |-> cycles,
         bedtime |-> bedtime,
         wakeTime |-> wakeTime,
         filename |-> <<>>]

\* generateICSFile with the bedtime moved to tomorrow also when it is now
generateICSFile_TomorrowWhenNow(bedtime, wakeTime, cycles, t) ==
    LET bed == ClockOf(bedtime)
        wake == ClockOf(wakeTime)
        today == setHours(t, bed.hours, bed.minutes)
        bedtimeDate == IF today <= t THEN addDays(today, 1) ELSE today
        wakeTimeDate == setHours(addDays(bedtimeDate, 1), wake.hours, wake.minutes)
    IN  [uid |-> t,
         dtstamp |-> formatDate(t),
         dtstart |-> formatDate(bedtimeDate),
         dtend |-> formatDate(wakeTimeDate),
         trigger |-> -ALARM_MINUTES,
         cycles |-> cycles,
         bedtime |-> bedtime,
         wakeTime |-> wakeTime,
         filename |-> <<>>]

\* generateICSFile(bedtime, wakeTime, cycles) when the clock shows t: the
\* fields of the file that depend on the arguments or on the clock (UID,
\* DTSTAMP, DTSTART, DTEND, TRIGGER, and the texts of the description)
generateICSFile(bedtime, wakeTime, cycles, t) ==
    LET bed == ClockOf(bedtime)
        wake == ClockOf(wakeTime)
        today == setHours(t, bed.hours, bed.minutes)
        bedtimeDate == IF today < t THEN addDays(today, 1) ELSE today
        wakeTimeDate == setHours(addDays(bedtimeDate, 1), wake.hours, wake.minutes)
    IN  [uid |-> t,
         dtstamp |-> formatDate(t),
         dtstart |-> formatDate(bedtimeDate),
         dtend |-> formatDate(wakeTimeDate),
         trigger |-> -ALARM_MINUTES,
         cycles |-> cycles,
         bedtime |-> bedtime,
         wakeTime |-> wakeTime,
         filename |-> <<>>]

\* downloadCalendarEvent(bedtime, wakeTime, cycles): the file downloaded
downloadCalendarEvent(bedtime, wakeTime, cycles) ==
    ics' = [generateICSFile(bedtime, wakeTime, cycles, now)
            EXCEPT !.filename = <<"bedtime-">> \o replaceColon(bedtime) \o <<".ics">>]

\* the error displayResults throws on data, NoError when it completes
DisplayError(data) ==
    IF data.kind = "null" THEN NullTypeError
    ELSE IF data.kind = "object" /\ data.hasOptions THEN NoError
    ELSE UndefinedTypeError

----------------------------------------------------------------------------
(* calculateBedtimes *)

NoResponse == [event |-> "none", status |-> 0, body |-> NoBody, error |-> NoError]

\* an abort timer is due 60 seconds after it was set
Due(t) == t.age * TickMs >= TIMEOUT_MS

\* the synchronous part of calculateBedtimes: controller, timer, fetch
StartCall(data) ==
    /\ calls' = calls + 1
    /\ controller' = calls + 1
    /\ abortTimers' = abortTimers \cup {[ctl |-> calls + 1, age |-> 0]}
    /\ requestBody' = Stringify(data)
    /\ response' = NoResponse
    /\ fetchState' = "pending"

\* clearTimeout(timeoutId)
ClearTimeout == abortTimers' = {t \in abortTimers : t.ctl # controller}

\* the error thrown for a non-success response with the given parsed body
ApiError(status, body) ==
    IF body.kind = "null" THEN NullTypeError
    ELSE LET detail == IF body.kind = "object" THEN body.detail ELSE NoDetail
         IN  Error("Error", IF Truthy(detail) THEN DetailString(detail)
                            ELSE ApiErrorMsg(status))

calculateBedtimes_catch_NoAbortBranch(error) ==
    IF error.message = FailedToFetch \/ Includes(error.message, <<"NetworkError">>)
    THEN Error("Error", ConnectMsg)
    ELSE error

\* the catch block of calculateBedtimes: the error it rethrows
calculateBedtimes_catch(error) ==
    IF error.name = "AbortError"
    THEN Error("Error", TimeoutMsg)
    ELSE IF error.message = FailedToFetch \/ Includes(error.message, <<"NetworkError">>)
    THEN Error("Error", ConnectMsg)
    ELSE error

----------------------------------------------------------------------------
(* handleSubmit *)

handleSubmit_catch_Retry(error) ==
    /\ showError(IF error.message # <<>> THEN error.message ELSE GenericMsg)
    /\ setLoadingState(TRUE)
    /\ calls' = calls + 1
    /\ fetchState' = "pending"

handleSubmit_catch_NoFinally(error) ==
    /\ showError(IF error.message # <<>> THEN error.message ELSE GenericMsg)
    /\ UNCHANGED <<btnDisabled, btnLoading, calls>>
    /\ fetchState' = "idle"

\* the catch and finally blocks of handleSubmit
handleSubmit_catch(error) ==
    /\ showError(IF error.message # <<>> THEN error.message ELSE GenericMsg)
    /\ setLoadingState(FALSE)
    /\ fetchState' = "idle"
    /\ UNCHANGED calls

handleSubmit_NoEarlyReturn(form) ==
    /\ ~btnDisabled
    /\ submits < MaxSubmits
    /\ submits' = submits + 1
    /\ formData' = getFormData(form)
    /\ validation' = validateFormData(formData')
    /\ hideResults
    /\ IF validation'.valid
       THEN hideError /\ UNCHANGED errorText
       ELSE showError(validation'.error)
    /\ setLoadingState(TRUE)
    /\ StartCall(formData')
    /\ UNCHANGED <<resultsWakeTime, cards, now, countdownVars, notificationVars, notifications, ics>>

\* handleSubmit without the call of hideResults
handleSubmit_KeepsResults(form) ==
    /\ ~btnDisabled
    /\ submits < MaxSubmits
    /\ submits' = submits + 1
    /\ formData' = getFormData(form)
    /\ validation' = validateFormData(formData')
    /\ UNCHANGED resultsVisible
    /\ IF validation'.valid
       THEN /\ hideError
            /\ UNCHANGED errorText
            /\ setLoadingState(TRUE)
            /\ StartCall(formData')
       ELSE /\ showError(validation'.error)
            /\ UNCHANGED <<btnDisabled, btnLoading, fetchState, controller,
                           requestBody, abortTimers, response, calls>>
    /\ UNCHANGED <<resultsWakeTime, cards, now, countdownVars, notificationVars, notifications, ics>>

\* handleSubmit for a submit event delivered whatever the state of the
\* submit control
handleSubmit_WhileDisabled(form) ==
    /\ submits < MaxSubmits
    /\ submits' = submits + 1
    /\ formData' = getFormData(form)
    /\ validation' = validateFormData(formData')
    /\ hideResults
    /\ IF validation'.valid
       THEN /\ hideError
            /\ UNCHANGED errorText
            /\ setLoadingState(TRUE)
            /\ StartCall(formData')
       ELSE /\ showError(validation'.error)
            /\ UNCHANGED <<btnDisabled, btnLoading, fetchState, controller,
                           requestBody, abortTimers, response, calls>>
    /\ UNCHANGED <<resultsWakeTime, cards, now, countdownVars, notificationVars, notifications, ics>>

\* a submit event, up to the first await.  The browser delivers no submit
\* event while the form's submit button is disabled.
handleSubmit(form) ==
    /\ ~btnDisabled
    /\ submits < MaxSubmits
    /\ submits' = submits + 1
    /\ formData' = getFormData(form)
    /\ validation' = validateFormData(formData')
    /\ hideResults
    /\ IF validation'.valid
       THEN /\ hideError
            /\ UNCHANGED errorText
            /\ setLoadingState(TRUE)
            /\ StartCall(formData')
       ELSE /\ showError(validation'.error)
            /\ UNCHANGED <<btnDisabled, btnLoading, fetchState, controller,
                           requestBody, abortTimers, response, calls>>
    /\ UNCHANGED <<resultsWakeTime, cards, now, countdownVars, notificationVars, notifications, ics>>

----------------------------------------------------------------------------
(* The events that follow a submission *)

Submit == \E form \in SubmitForms : handleSubmit(form)

\* time passes; a due timer fires before time passes further
Tick ==
    /\ abortTimers # {}
    /\ \A t \in abortTimers : ~Due(t)
    /\ abortTimers' = {[t EXCEPT !.age = @ + 1] : t \in abortTimers}
    /\ UNCHANGED <<formData, validation, errorVisible, errorText,
                   resultsVisible, resultsWakeTime, cards, btnDisabled,
                   btnLoading, fetchState, controller, requestBody, response,
                   submits, calls,
                   now, countdownVars, notificationVars, notifications, ics>>

\* a timeout callback that aborts whichever call is in flight, as with one
\* controller shared by all calls
AbortTimerFires_AnyCall ==
    \E t \in abortTimers :
        /\ Due(t)
        /\ abortTimers' = abortTimers \ {t}
        /\ IF fetchState \in {"pending", "body"}
           THEN /\ response' = [response EXCEPT !.event = "aborted", !.error = AbortError]
                /\ handleSubmit_catch(calculateBedtimes_catch(AbortError))
           ELSE UNCHANGED <<response, errorVisible, errorText, btnDisabled,
                            btnLoading, fetchState, calls>>
        /\ UNCHANGED <<formData, validation, resultsVisible, resultsWakeTime,
                       cards, controller, requestBody, submits,
                       now, countdownVars, notificationVars, notifications, ics>>

\* a timeout callback runs controller.abort(): the call of that controller,
\* when still in flight, rejects with an AbortError
AbortTimerFires ==
    \E t \in abortTimers :
        /\ Due(t)
        /\ abortTimers' = abortTimers \ {t}
        /\ IF t.ctl = controller /\ fetchState \in {"pending", "body"}
           THEN /\ response' = [response EXCEPT !.event = "aborted", !.error = AbortError]
                /\ handleSubmit_catch(calculateBedtimes_catch(AbortError))
           ELSE UNCHANGED <<response, errorVisible, errorText, btnDisabled,
                            btnLoading, fetchState, calls>>
        /\ UNCHANGED <<formData, validation, resultsVisible, resultsWakeTime,
                       cards, controller, requestBody, submits,
                       now, countdownVars, notificationVars, notifications, ics>>

\* the server cannot be reached: fetch rejects, the timer is left running
FetchRejects ==
    \E error \in NetworkErrors :
        /\ fetchState = "pending"
        /\ response' = [response EXCEPT !.event = "rejected", !.error = error]
        /\ handleSubmit_catch(calculateBedtimes_catch(error))
        /\ UNCHANGED <<formData, validation, resultsVisible, resultsWakeTime,
                       cards, controller, requestBody, abortTimers, submits,
                       now, countdownVars, notificationVars, notifications, ics>>

\* the response status and headers arrive: fetch resolves, the timer is
\* cleared, response.json() starts reading the body
ResponseArrives ==
    \E status \in Statuses :
        /\ fetchState = "pending"
        /\ response' = [response EXCEPT !.event = "status", !.status = status]
        /\ ClearTimeout
        /\ fetchState' = "body"
        /\ UNCHANGED <<formData, validation, errorVisible, errorText,
                       resultsVisible, resultsWakeTime, cards, btnDisabled,
                       btnLoading, controller, requestBody, submits, calls,
                       now, countdownVars, notificationVars, notifications, ics>>

\* the body is complete: response.json() settles
BodyArrives ==
    \E body \in Bodies :
        /\ fetchState = "body"
        /\ response' = [response EXCEPT !.event = "body", !.body = body]
        /\ IF body.kind = "text"
           THEN /\ handleSubmit_catch(calculateBedtimes_catch(SyntaxError))
                /\ UNCHANGED <<resultsVisible, resultsWakeTime, cards, countdownVars,
                                notifications>>
           ELSE IF ~Ok(response.status)
           THEN /\ handleSubmit_catch(calculateBedtimes_catch(ApiError(response.status, body)))
                /\ UNCHANGED <<resultsVisible, resultsWakeTime, cards, countdownVars,
                                notifications>>
           ELSE /\ displayResults(body)
                /\ IF DisplayError(body) = NoError
                   THEN /\ resultsVisible' = TRUE
                        /\ setLoadingState(FALSE)
                        /\ fetchState' = "idle"
                        /\ UNCHANGED <<errorVisible, errorText, calls>>
                   ELSE /\ handleSubmit_catch(DisplayError(body))
                        /\ UNCHANGED resultsVisible
        /\ UNCHANGED <<formData, validation, controller, requestBody,
                       abortTimers, submits,
                       now, notificationVars, ics>>

\* the connection breaks while the body is read: response.json() rejects
BodyFails ==
    \E error \in NetworkErrors :
        /\ fetchState = "body"
        /\ response' = [response EXCEPT !.event = "bodyfailed", !.error = error]
        /\ handleSubmit_catch(calculateBedtimes_catch(error))
        /\ UNCHANGED <<formData, validation, resultsVisible, resultsWakeTime,
                       cards, controller, requestBody, abortTimers, submits,
                       now, countdownVars, notificationVars, notifications, ics>>

----------------------------------------------------------------------------
(* The calculator.  It runs on the server and its code is not among the    *)
(* sources: it is modelled from the specification and from the algorithm   *)
(* line of the documentation.                                              *)

BAND_MIN_HOURS == 7
BAND_MAX_HOURS == 9

\* the character of a digit
DigitChar(d) == CHOOSE c \in Digits : DigitVal(c) = d

\* a number below 100 written with two digits
Pad2(n) == <<DigitChar(n \div 10), DigitChar(n % 10)>>

\* a minute of the day written HH:MM
ClockText(minute) ==
    Pad2(minute \div MINUTES_PER_HOUR) \o <<":">> \o Pad2(minute % MINUTES_PER_HOUR)

\* the bedtime with the latency counted after the wake time instead of
\* before the sleep
Bedtime_LatencyAdded(request, cycles) ==
    ClockText((MinuteOfDay(request.wake_time)
               - cycles * request.cycle_length_min.v
               + request.sleep_latency_min.v) % MinutesPerDay)

\* bedtime = wake_time - (cycles x cycle_length) - sleep_latency
Bedtime(request, cycles) ==
    ClockText((MinuteOfDay(request.wake_time)
               - cycles * request.cycle_length_min.v
               - request.sleep_latency_min.v) % MinutesPerDay)

\* how far a sleep of the given minutes is from the band of 7 to 9 hours
BandDistance(minutes) ==
    IF minutes < BAND_MIN_HOURS * MINUTES_PER_HOUR
    THEN BAND_MIN_HOURS * MINUTES_PER_HOUR - minutes
    ELSE IF minutes > BAND_MAX_HOURS * MINUTES_PER_HOUR
    THEN minutes - BAND_MAX_HOURS * MINUTES_PER_HOUR
    ELSE 0

\* the cycle counts whose sleep matches the band best
BestMatches(request) ==
    LET counts == request.min_cycles.v .. request.max_cycles.v
        sleep(c) == c * request.cycle_length_min.v
    IN  {c \in counts : \A o \in counts : BandDistance(sleep(c)) <= BandDistance(sleep(o))}

\* one candidate per cycle count, from max_cycles down to min_cycles, the
\* given one flagged as recommended
Candidates(request, best) ==
    [i \in 1..(request.max_cycles.v - request.min_cycles.v + 1) |->
        LET cycles == request.max_cycles.v - i + 1
        IN  Option(cycles, Bedtime(request, cycles), cycles = best)]

\* the option lists the calculator may answer a valid request with: the
\* specification names no rule for choosing between equally good matches
Calculate(request) == {Candidates(request, best) : best \in BestMatches(request)}

\* the valid form contents submitted to the calculator
CalculatorForms ==
    [wake : {<<"0", "7", ":", "3", "0">>, <<"0", "6", ":", "0", "0">>, <<"0", "0", ":", "1", "0">>},
     latency : {<<"0">>, <<"1", "5">>, <<"6", "0">>},
     cycle : {<<"6", "0">>, <<"9", "0">>, <<"1", "1", "0">>},
     min : {<<"1">>, <<"4">>},
     max : {<<"6">>, <<"1", "0">>}]

\* a valid form is submitted
SubmitRequest == \E form \in CalculatorForms : handleSubmit(form)

\* the calculator answers the request in flight: fetch resolves with status
\* 200, the body is parsed, displayResults renders it
CalculatorAnswers ==
    /\ fetchState = "pending"
    /\ \E options \in Calculate(requestBody) :
           LET data == [Body("object", NoDetail, TRUE, options)
                        EXCEPT !.wake_time = requestBody.wake_time]
           IN  /\ response' = [event |-> "body", status |-> 200, body |-> data,
                               error |-> NoError]
               /\ displayResults(data)
    /\ ClearTimeout
    /\ resultsVisible' = TRUE
    /\ setLoadingState(FALSE)
    /\ fetchState' = "idle"
    /\ UNCHANGED <<formData, validation, errorVisible, errorText, controller,
                   requestBody, submits, calls, now, notificationVars, ics>>

----------------------------------------------------------------------------
(* The countdowns, the alert controls and the calendar controls *)

\* a minute passes; a due interval callback runs before time passes further
TimePasses ==
    /\ intervals # {}
    /\ \A t \in intervals : t.age < INTERVAL_MS
    /\ now' = now + INTERVAL_MS
    /\ intervals' = {[t EXCEPT !.age = @ + INTERVAL_MS] : t \in intervals}
    /\ UNCHANGED <<formVars, cards, countdownIntervals, created,
                   notificationVars, notifications, ics>>

\* the callback of one interval timer; due timers run in the order in which
\* they were set
IntervalFires ==
    \E t \in intervals :
        /\ t.age >= INTERVAL_MS
        /\ \A o \in intervals : o.age >= INTERVAL_MS => t.id <= o.id
        /\ LET shouldContinue == updateCountdown(t.bedtime, now)
               i == IndexOf(t.id)
           IN  /\ cards' = IF i = 0 THEN cards
                           ELSE [cards EXCEPT ![i].countdown = Shown(shouldContinue)]
               /\ notifications' =
                      IF shouldContinue.notify
                      THEN sendBedtimeNotification(notifications, t.bedtime, t.id)
                      ELSE notifications
               /\ IF shouldContinue.continue
                  THEN /\ intervals' = (intervals \ {t}) \cup {[t EXCEPT !.age = 0]}
                       /\ UNCHANGED countdownIntervals
                  ELSE /\ intervals' = intervals \ {t}
                       /\ countdownIntervals' = Delete(countdownIntervals, t.bedtime)
        /\ UNCHANGED <<formVars, now, created, notificationVars, ics>>

\* a submission of the default form that the server answers at once with a
\* list of options: handleSubmit from the submit event to displayResults
Calculated ==
    \E options \in OptionLists :
        LET data == Body("object", NoDetail, TRUE, options)
        IN  /\ ~btnDisabled
            /\ submits < MaxSubmits
            /\ submits' = submits + 1
            /\ formData' = getFormData(DefaultForm)
            /\ validation' = validateFormData(formData')
            /\ hideError
            /\ calls' = calls + 1
            /\ controller' = calls + 1
            /\ requestBody' = Stringify(formData')
            /\ response' = [event |-> "body", status |-> 200, body |-> data,
                            error |-> NoError]
            /\ displayResults(data)
            /\ resultsVisible' = TRUE
            /\ UNCHANGED <<errorText, btnDisabled, btnLoading, fetchState,
                           abortTimers, now, notificationVars, ics>>

\* a submission of the default form whose fetch is rejected at once:
\* handleSubmit from the submit event to its catch and finally blocks
Unreachable ==
    /\ ~btnDisabled
    /\ submits < MaxSubmits
    /\ resultsVisible
    /\ submits' = submits + 1
    /\ formData' = getFormData(DefaultForm)
    /\ validation' = validateFormData(formData')
    /\ hideResults
    /\ calls' = calls + 1
    /\ controller' = calls + 1
    /\ requestBody' = Stringify(formData')
    /\ response' = [event |-> "rejected", status |-> 0, body |-> NoBody,
                    error |-> Error("TypeError", FailedToFetch)]
    /\ showError(calculateBedtimes_catch(response'.error).message)
    /\ abortTimers' = abortTimers \cup {[ctl |-> calls + 1, age |-> 0]}
    /\ UNCHANGED <<resultsWakeTime, btnDisabled, btnLoading, fetchState,
                   cards, now, countdownVars, notificationVars,
                   notifications, ics>>

\* the number of presses of the alert controls of the first n cards
RECURSIVE Presses(_)
Presses(n) == IF n = 0 THEN 0 ELSE Presses(n - 1) + cards[n].alert.presses

\* the user presses the alert control of a card
PressAlert ==
    \E i \in 1..Len(cards) :
        /\ resultsVisible
        /\ ~cards[i].alert.disabled
        /\ Presses(Len(cards)) < MaxPresses
        /\ toggleNotifications(i)
        /\ UNCHANGED <<formVars, now, countdownVars, notificationApi,
                       permission, notificationPermission, ics>>

\* the user answers or dismisses the permission prompt of the browser, or
\* the browser answers by itself because the permission is decided already
AnswerPrompt ==
    \E p \in prompts, answer \in {"granted", "denied", "default"} :
        /\ permission # "default" => answer = permission
        /\ permission' = answer
        /\ prompts' = prompts \ {p}
        /\ requestPermission_then(p, answer)
        /\ UNCHANGED <<formVars, now, countdownVars, notificationApi,
                       uncaught, ics>>

\* the user presses the calendar control of a card
Download ==
    \E i \in 1..Len(cards) :
        /\ resultsVisible
        /\ downloadCalendarEvent(cards[i].bedtime, cards[i].wakeTime, cards[i].cycles)
        /\ UNCHANGED <<formVars, cards, now, countdownVars, notificationVars,
                       notifications>>

----------------------------------------------------------------------------
(* Specifications *)

\* the form and the result and error areas of a page just loaded
FormLoaded ==
    /\ validation = NoValidation
    /\ errorVisible = FALSE
    /\ errorText = <<>>
    /\ resultsVisible = FALSE
    /\ resultsWakeTime = <<>>
    /\ btnDisabled = FALSE
    /\ btnLoading = FALSE
    /\ fetchState = "idle"
    /\ controller = 0
    /\ requestBody = NoRequest
    /\ abortTimers = {}
    /\ response = NoResponse
    /\ submits = 0
    /\ calls = 0

\* no card, no countdown, no notification, no calendar file yet
NothingRendered ==
    /\ cards = <<>>
    /\ intervals = {}
    /\ countdownIntervals = <<>>
    /\ created = 0
    /\ notifications = {}
    /\ alerts = 0
    /\ uncaught = {}
    /\ ics = NoIcs

\* init() has called requestNotificationPermission() on a platform with or
\* without the Notification API, whose permission for the page is p
NotificationsLoaded(api, p) ==
    /\ notificationApi = api
    /\ permission = IF api THEN p ELSE "undefined"
    /\ notificationPermission = IF api /\ p = "granted" THEN "granted" ELSE "null"
    /\ prompts = IF api /\ p = "default" THEN {InitPrompt} ELSE {}

\* the page is loaded at 22:45 in a browser that has granted notifications
Init ==
    /\ formData = NoFormData
    /\ FormLoaded
    /\ NothingRendered
    /\ now = At(0, 22, 45, 0)
    /\ NotificationsLoaded(TRUE, "granted")

Next ==
    \/ Submit
    \/ Tick
    \/ AbortTimerFires
    \/ FetchRejects
    \/ ResponseArrives
    \/ BodyArrives
    \/ BodyFails

Spec == Init /\ [][Next]_vars

\* timers run: time passes and a due timeout callback is called.  What the
\* server and the network do is not constrained: a response, or the rest of
\* a body, may never come.
FairSpec == Spec /\ WF_vars(Tick) /\ WF_vars(AbortTimerFires)

\* the instants at which the page is loaded: shortly before, and at, the
\* bedtime 22:45
StartTimes == {At(0, 22, 44, 0), At(0, 22, 44, 30), At(0, 22, 45, 0)}

\* the user acts during the first minutes after the page was loaded
UserActs == now < UserMinutes * MsPerMinute

\* the countdowns are followed for a day
InTime == now + INTERVAL_MS <= MaxMinutes * MsPerMinute

InitCountdown ==
    /\ formData = NoFormData
    /\ FormLoaded
    /\ NothingRendered
    /\ now \in StartTimes
    /\ \E p \in {"granted", "denied"} : NotificationsLoaded(TRUE, p)

NextCountdown ==
    \/ Calculated
    \/ Unreachable
    \/ UserActs /\ TimePasses
    \/ IntervalFires

\* results rendered again and again during the first minutes after the page
\* was loaded, every countdown callback running when it is due
SpecCountdown == InitCountdown /\ [][NextCountdown]_vars

NextDay ==
    \/ submits = 0 /\ Calculated
    \/ InTime /\ TimePasses
    \/ IntervalFires

\* the page is loaded late in the evening or early in the afternoon
DayStartTimes == StartTimes \cup {At(0, 13, 44, 0)}

InitDay ==
    /\ formData = NoFormData
    /\ FormLoaded
    /\ NothingRendered
    /\ now \in DayStartTimes
    /\ \E p \in {"granted", "denied"} : NotificationsLoaded(TRUE, p)

\* one list of results, its countdowns running for a day
SpecDay == InitDay /\ [][NextDay]_vars

InitNotify ==
    /\ formData = NoFormData
    /\ FormLoaded
    /\ NothingRendered
    /\ now \in StartTimes
    /\ \E api \in BOOLEAN, p \in {"default", "granted", "denied"} :
           NotificationsLoaded(api, p)

NextNotify ==
    \/ submits = 0 /\ Calculated
    \/ PressAlert
    \/ AnswerPrompt
    \/ now < NotifyMinutes * MsPerMinute /\ TimePasses
    \/ IntervalFires

\* one list of results, its alert controls and the permission prompts, on
\* every kind of platform
SpecNotify == InitNotify /\ [][NextNotify]_vars

\* the instants at which the functions of the clock are evaluated: every
\* quarter of an hour of a day, on the minute and half a minute later
ClockTimes ==
    {At(0, h, m, s) : h \in 0..(HOURS_PER_DAY - 1), m \in {0, 15, 30, 45}, s \in {0, 30}}

InitClock ==
    /\ formData = NoFormData
    /\ FormLoaded
    /\ NothingRendered
    /\ now \in ClockTimes
    /\ NotificationsLoaded(TRUE, "granted")

NextClock ==
    \/ submits = 0 /\ Calculated
    \/ Download

\* the first countdown evaluation and the calendar file of every card, at
\* every instant of ClockTimes
SpecClock == InitClock /\ [][NextClock]_vars

NextCalculator ==
    \/ submits = 0 /\ SubmitRequest
    \/ CalculatorAnswers

\* one valid request, answered by the calculator
SpecCalculator == Init /\ [][NextCalculator]_vars

\* the validator alone, on every form content of the model
InitValidate ==
    /\ formData \in {getFormData(form) : form \in AllForms}
    /\ FormLoaded
    /\ NothingRendered
    /\ now = At(0, 22, 45, 0)
    /\ NotificationsLoaded(TRUE, "granted")

\* a validator that reports its finding on the page itself
Validate_ShowsError ==
    /\ validation = NoValidation
    /\ validation' = validateFormData(formData)
    /\ IF validation'.valid
       THEN UNCHANGED <<errorVisible, errorText>>
       ELSE showError(validation'.error)
    /\ UNCHANGED <<formData, resultsVisible,
                   resultsWakeTime, cards, btnDisabled, btnLoading, fetchState,
                   controller, requestBody, abortTimers, response, submits,
                   calls,
                   now, countdownVars, notificationVars, notifications, ics>>

Validate ==
    /\ validation = NoValidation
    /\ validation' = validateFormData(formData)
    /\ UNCHANGED <<formData, errorVisible, errorText, resultsVisible,
                   resultsWakeTime, cards, btnDisabled, btnLoading, fetchState,
                   controller, requestBody, abortTimers, response, submits,
                   calls,
                   now, countdownVars, notificationVars, notifications, ics>>

NextValidate == Validate

SpecValidate == InitValidate /\ [][NextValidate]_vars

----------------------------------------------------------------------------
(* What the specification states about a request, written independently of *)
(* the validator's code *)

\* x is a number and lies in lo..hi
InRange(x, lo, hi) == ~x.nan /\ x.v \in lo..hi

\* x is a number and lies outside lo..hi
OutOfRange(x, lo, hi) == ~x.nan /\ x.v \notin lo..hi

\* the CalculationRequest constraints on form data
MeetsConstraints(data) ==
    /\ data.wake_time # <<>>
    /\ InRange(data.sleep_latency_min, 0, 60)
    /\ InRange(data.cycle_length_min, 60, 110)
    /\ InRange(data.min_cycles, 1, 10)
    /\ InRange(data.max_cycles, 1, 10)
    /\ data.min_cycles.v <= data.max_cycles.v

\* the six checks in their stated order: whether the check fails on data,
\* the reason reported for it, and the words that name its field
StatedChecks(data) ==
    <<[fails |-> data.wake_time = <<>>,
       reason |-> ErrWakeTime, field |-> <<"wake", "time">>],
      [fails |-> OutOfRange(data.sleep_latency_min, 0, 60),
       reason |-> ErrLatency, field |-> <<"latency">>],
      [fails |-> OutOfRange(data.cycle_length_min, 60, 110),
       reason |-> ErrCycleLength, field |-> <<"Cycle", "length">>],
      [fails |-> OutOfRange(data.min_cycles, 1, 10),
       reason |-> ErrMinCycles, field |-> <<"Min", "cycles">>],
      [fails |-> OutOfRange(data.max_cycles, 1, 10),
       reason |-> ErrMaxCycles, field |-> <<"Max", "cycles">>],
      [fails |-> ~data.min_cycles.nan /\ ~data.max_cycles.nan
                 /\ data.min_cycles.v > data.max_cycles.v,
       reason |-> ErrMinMax, field |-> <<"Min", "cycles">>]>>

FailingChecks(data) == {i \in 1..6 : StatedChecks(data)[i].fails}

\* the index of the first failing check
FirstFailing(data) ==
    CHOOSE i \in FailingChecks(data) : \A j \in FailingChecks(data) : i <= j

\* the constraints on a request body as it travels
RequestMeetsConstraints(body) ==
    /\ body.wake_time # <<>>
    /\ \A f \in {"sleep_latency_min", "cycle_length_min", "min_cycles", "max_cycles"} :
           ~body[f].isNull
    /\ body.sleep_latency_min.v \in 0..60
    /\ body.cycle_length_min.v \in 60..110
    /\ body.min_cycles.v \in 1..10
    /\ body.max_cycles.v \in 1..10
    /\ body.min_cycles.v <= body.max_cycles.v

\* the latest submission passed validation and its call settled with event
Settled(event) ==
    /\ fetchState = "idle"
    /\ validation.valid
    /\ response.event = event

\* the latest call ended on a complete non-success response
ErrorResponse == Settled("body") /\ ~Ok(response.status)

\* that response carries a failure reason string
HasReason ==
    /\ response.body.kind = "object"
    /\ response.body.detail.type = "string"
    /\ response.body.detail.text # <<>>

\* that response carries no failure reason: reason missing or empty, or a
\* body that is no JSON object
HasNoReason ==
    \/ response.body.kind # "object"
    \/ response.body.detail.type = "undefined"
    \/ response.body.detail.type = "string" /\ response.body.detail.text = <<>>

----------------------------------------------------------------------------
(* Claims *)

\* C1: validateFormData returns valid if and only if the wake time is
\* non-empty, latency is in 0..60, cycle length in 60..110, min and max
\* cycles each in 1..10 and min cycles <= max cycles.
C1_ValidIffInRange ==
    validation # NoValidation =>
        (validation.valid <=> MeetsConstraints(formData))

C3_SentRequestsMeetConstraints ==
    calls > 0 => RequestMeetsConstraints(requestBody)

\* C4: a submit event whose validation fails starts no network call, does
\* not enter the loading state, leaves the submit control enabled, shows
\* the validation reason as the error, and ends there.
C4_ValidationFailureEndsSubmission ==
    [][(submits' = submits + 1 /\ ~validation'.valid) =>
          /\ calls' = calls
          /\ requestBody' = requestBody
          /\ abortTimers' = abortTimers
          /\ fetchState' = "idle"
          /\ ~btnDisabled' /\ ~btnLoading'
          /\ errorVisible' /\ errorText' = validation'.error
          /\ ~resultsVisible']_vars

\* a submission has failed validation
C4_Witness ==
    /\ submits > 0
    /\ ~validation.valid
    /\ validation.error = ErrLatency
    /\ errorVisible /\ errorText = ErrLatency
    /\ calls = 0

\* C5: a call still without response 60 seconds after its start is
\* aborted, and the error then shown is the timeout message, which no other
\* outcome shows.
C5_TimeoutAbortsWithDistinctMessage ==
    /\ fetchState = "pending" =>
           \E t \in abortTimers :
               t.ctl = controller /\ (t.age = 0 \/ ~Due([t EXCEPT !.age = @ - 1]))
    /\ Settled("aborted") => (errorVisible /\ errorText = TimeoutMsg)
    /\ \A e \in {"rejected", "body", "bodyfailed"} :
           Settled(e) => ~(errorVisible /\ errorText = TimeoutMsg)
    /\ TimeoutMsg \notin {ConnectMsg, GenericMsg}

\* a call was aborted by its timer
C5_Witness == Settled("aborted") /\ errorText = TimeoutMsg /\ abortTimers = {}

\* C6: every submission that passes validation eventually reaches an
\* outcome and the loading indicator is then cleared.
C6_EverySubmissionSettles ==
    (fetchState # "idle") ~> (fetchState = "idle" /\ ~btnLoading /\ (resultsVisible \/ errorVisible))

\* C7: for a non-success response that carries a failure reason string the
\* error shown is exactly that string.
C7_ReasonShownVerbatim ==
    (ErrorResponse /\ HasReason) =>
        (errorVisible /\ errorText = response.body.detail.text)

\* C8: for a non-success response that carries no failure reason string
\* the error shown is "API error: <status>".
C8_GenericApiError ==
    (ErrorResponse /\ HasNoReason) =>
        (errorVisible /\ errorText = ApiErrorMsg(response.status))

\* C9: a network call is started only by a submit event, one per event;
\* nothing else, in particular no error, starts one.
C9_OneCallPerSubmit ==
    [][calls' # calls => (calls' = calls + 1 /\ submits' = submits + 1)]_vars

\* a call failed and no further call was started
C9_Witness ==
    /\ Settled("rejected")
    /\ errorVisible
    /\ calls = 1 /\ submits = 1

\* C10: the submit control is disabled exactly while a network call is in
\* flight.
C10_DisabledExactlyInFlight ==
    /\ btnDisabled <=> fetchState # "idle"
    /\ btnLoading <=> fetchState # "idle"

\* after an error of a second submission the control is enabled again
C10_Witness ==
    /\ submits = 2 /\ calls = 2
    /\ Settled("body") /\ errorVisible
    /\ ~btnDisabled

----------------------------------------------------------------------------
(* Countdown timers *)

\* the ids of the cards in the container
CardIds == {cards[i].id : i \in 1..Len(cards)}

\* C11: in every reachable state, whatever option lists were rendered (a
\* list with the same bedtime twice included), there is at most one live
\* countdown timer per bedtime text
C11_OneTimerPerBedtime ==
    \A t, o \in intervals : t.bedtime = o.bedtime => t = o

\* C12: rendering a result set cancels every timer of the earlier sets and
\* empties the map first: every live timer, and every entry of the map, is
\* of a card of the result set in the container
C12_NoTimerOfEarlierSet ==
    /\ \A t \in intervals : t.id \in CardIds
    /\ Values(countdownIntervals) \subseteq CardIds

\* C13: a candidate becomes Due once: after its bedtime notification was
\* triggered, at a tick or at first render, no later tick of that candidate
\* triggers a bedtime notification again
C13_DueOnce ==
    \A n \in notifications : n.kind = "bedtime" => n.nth = 1

----------------------------------------------------------------------------
(* The countdown evaluation, as the specification states it *)

\* today's occurrence of the clock time of a card minus the instant of the
\* latest evaluation of its countdown, in milliseconds
TodayMinusNow(card) ==
    At(card.countdown.at \div MsPerDay, ClockOf(card.bedtime).hours,
       ClockOf(card.bedtime).minutes, 0) - card.countdown.at

\* the distance from the latest evaluation forward to the next occurrence of
\* the clock time of the card, in milliseconds
ForwardDistance(card) == TodayMinusNow(card) % MsPerDay

HalfDay == WRAP_HOURS * MsPerHour

\* C14: a bedtime whose next occurrence lies across midnight, less than 12
\* hours ahead of the evaluation (00:15 evaluated at 22:00), is reported as
\* tonight: not past, with the forward distance as remaining minutes (135)
C14_AcrossMidnightIsTonight ==
    \A i \in 1..Len(cards) :
        TodayMinusNow(cards[i]) < 0 /\ ForwardDistance(cards[i]) < HalfDay
        => /\ ~cards[i].countdown.until.isPast
           /\ cards[i].countdown.class # "past"
           /\ cards[i].countdown.until.totalMinutes
                  = Floor(ForwardDistance(cards[i]), MsPerMinute)

\* today's occurrence is earlier than the evaluation by less than 12 hours
EarlierByLess(card) == TodayMinusNow(card) < 0 /\ -TodayMinusNow(card) < HalfDay

\* today's occurrence is earlier than the evaluation by more than 12 hours
EarlierByMore(card) == -TodayMinusNow(card) > HalfDay

----------------------------------------------------------------------------
(* Notifications *)

\* C16: no notification, bedtime notification or opt-in confirmation, is
\* created while the browser does not hold a granted permission for the page
C16_NotifiedOnlyWhenGranted ==
    \A n \in notifications : n.permission = "granted"

\* a bedtime notification and an opt-in confirmation have been created
C16_Witness ==
    /\ \E n \in notifications : n.kind = "bedtime"
    /\ \E n \in notifications : n.kind = "enabled"

\* C19: on a platform without the Notification API every notification
\* operation (the request at init, the bedtime notification at Due, a press
\* of an alert control) ends without an error and without a failure shown
C19_SilentWithoutApi ==
    ~notificationApi =>
        /\ uncaught = {}
        /\ alerts = 0
        /\ notifications = {}
        /\ prompts = {}

----------------------------------------------------------------------------
(* Calendar export *)

\* the time from the bedtime forward to the next occurrence of the wake
\* time, in seconds
TimeInBed(bedtime, wakeTime) ==
    ((MinuteOfDay(wakeTime) - MinuteOfDay(bedtime)) % MinutesPerDay) * SECONDS_PER_MINUTE

\* C17: the end of the calendar event minus its start is the time from the
\* bedtime forward to the next occurrence of the wake time (8h45m for 22:45
\* and 07:30, 7h15m for 00:15 and 07:30); the alarm is 15 minutes before
\* the start
C17_SpanIsTimeInBed ==
    ics # NoIcs =>
        /\ ics.dtend - ics.dtstart = TimeInBed(ics.bedtime, ics.wakeTime)
        /\ ics.trigger = -15

\* the instant at which the calendar file was generated
Generated == ics.uid

\* today's occurrence of the bedtime of the calendar file
BedtimeToday ==
    At(Generated \div MsPerDay, ClockOf(ics.bedtime).hours,
       ClockOf(ics.bedtime).minutes, 0)

\* the start and the end of the event, as Dates
Start == ics.dtstart * MS_PER_SECOND

End == ics.dtend * MS_PER_SECOND

\* C18: the event starts at the bedtime today when that has not passed yet
\* and tomorrow otherwise, so never before now and less than 24 hours
\* after now; it ends at the wake time of the day after the start's day
C18_StartTodayOrTomorrow ==
    ics # NoIcs =>
        /\ BedtimeToday >= Generated => Start = BedtimeToday
        /\ BedtimeToday < Generated => Start = BedtimeToday + MsPerDay
        /\ Start >= Generated
        /\ Start < Generated + MsPerDay
        /\ End = At((Start \div MsPerDay) + 1, ClockOf(ics.wakeTime).hours,
                    ClockOf(ics.wakeTime).minutes, 0)

\* a calendar file whose bedtime had passed when it was generated
C18_Witness ==
    /\ ics # NoIcs
    /\ BedtimeToday < Generated
    /\ Start = BedtimeToday + MsPerDay

----------------------------------------------------------------------------
(* The calculator's answers *)

\* wake time 07:30, latency 15, cycle length 90, 4 to 6 cycles
ExampleRequest == Stringify(getFormData(DefaultForm))

Answered == response.body.options

----------------------------------------------------------------------------
(* The end of a countdown *)

\* the card shows "Time to sleep now!" or "Time has passed"
Ended(card) == card.countdown.class \in {"now", "past"}

\* C22: a candidate found Due or Past, at a tick or at the first evaluation
\* when its card is created, has its timer cancelled and removed from the
\* map: a card shown as Due or Past has no live timer and no map entry
C22_EndedHasNoTimer ==
    \A i \in 1..Len(cards) :
        Ended(cards[i])
        => /\ \A t \in intervals : t.id # cards[i].id
           /\ cards[i].id \notin Values(countdownIntervals)

\* C23: Due and Past are terminal: a card shown as Due or Past is never
\* shown as Active again for as long as it stays in the container, across
\* midnight included
C23_EndedStaysEnded ==
    [][\A i \in 1..Len(cards) : \A j \in 1..Len(cards') :
           cards[i].id = cards'[j].id /\ Ended(cards[i]) => Ended(cards'[j])]_vars

\* C24: while a candidate is Active with more than one minute remaining, a
\* tick 60 seconds after its latest evaluation leaves it Active with the
\* remaining minutes reduced by exactly one, across midnight and for
\* bedtimes moved 24 hours forward included
C24_TickTakesOneMinute ==
    [][\A i \in 1..Len(cards) : \A j \in 1..Len(cards') :
           /\ cards[i].id = cards'[j].id
           /\ cards[i].countdown.class = "active"
           /\ cards[i].countdown.until.totalMinutes > 1
           /\ cards'[j].countdown.at = cards[i].countdown.at + INTERVAL_MS
           => /\ cards'[j].countdown.class = "active"
              /\ cards'[j].countdown.until.totalMinutes
                     = cards[i].countdown.until.totalMinutes - 1]_vars

----------------------------------------------------------------------------
(* Timers and the results section *)

\* C25: the countdown timers of a result set are cancelled when a new
\* submission hides the results: no timer is live and the map is empty
\* while the results section is hidden, during a request in flight and
\* after a submission that ended in an error included
C25_NoTimerWhileHidden ==
    ~resultsVisible => intervals = {} /\ countdownIntervals = <<>>

----------------------------------------------------------------------------
(* The validator's purity *)

----------------------------------------------------------------------------
(* The identifiers of the calendar records *)

\* C27: any two calendar exports, whatever their inputs and however close in
\* time, produce records with different unique identifiers: an export that
\* follows another one never carries the identifier of the one before
C27_UidsDiffer ==
    [][ics # NoIcs /\ ics' # ics => ics'.uid # ics.uid]_vars

----------------------------------------------------------------------------
(* The alert controls *)

\* this step is a press of the alert control of cards[i]
Pressed(i) ==
    /\ Len(cards') = Len(cards)
    /\ cards'[i].alert.presses = cards[i].alert.presses + 1

\* this step settles the permission request p of a press with a refusal
Refused(p) ==
    /\ p \in prompts \ prompts'
    /\ p # InitPrompt
    /\ permission' # "granted"

\* C28: a press of an alert control while the permission is denied, blocked
\* already or refused in the prompt, gives the user a blocking alert, makes
\* no notification and does not mark the control enabled, and a press makes
\* at most one permission request
C28_DeniedAlertsOnly ==
    [][/\ \A i \in 1..Len(cards) :
              Pressed(i)
              => /\ Cardinality(prompts' \ prompts) <= 1
                 /\ notificationApi /\ permission = "denied"
                    => /\ alerts' = alerts + 1
                       /\ notifications' = notifications
                       /\ prompts' = prompts
                       /\ ~cards'[i].alert.enabled
       /\ \A p \in prompts :
              Refused(p)
              => /\ alerts' = alerts + 1
                 /\ notifications' = notifications
                 /\ prompts' \subseteq prompts
                 /\ cards' = cards
                 /\ \A i \in 1..Len(cards) :
                        cards[i].id = p.card => ~cards'[i].alert.enabled]_vars

\* the permission was refused in the prompt of a press, and a later press
\* found it blocked: two alerts, nothing enabled, no notification
C28_Witness ==
    /\ permission = "denied"
    /\ notificationPermission = "denied"
    /\ alerts = 2
    /\ prompts = {}
    /\ notifications = {}
    /\ \E i \in 1..Len(cards) : cards[i].alert.presses = 2 /\ ~cards[i].alert.enabled

\* C30: a press of an alert control that ends with the permission granted,
\* granted already or granted in the prompt, fires one confirmation
\* notification and leaves the control enabled and disabled against further
\* presses: no control fires a second confirmation notification, and a
\* control marked enabled is disabled
C30_ConfirmedOncePerControl ==
    /\ \A n \in notifications : n.kind = "enabled" => n.nth = 1
    /\ \A i \in 1..Len(cards) : cards[i].alert.enabled => cards[i].alert.disabled

----------------------------------------------------------------------------
(* The cards of a response *)

\* displayResults has completed for the response that arrived last
Displayed ==
    /\ response.event = "body"
    /\ Ok(response.status)
    /\ response.body.kind = "object"
    /\ response.body.hasOptions

\* C29: after displayResults completes for a response the container holds
\* exactly one card per option of that response, in the order of its option
\* list, every card made by that rendering, and a card is marked recommended
\* exactly when the recommended flag of its option is true
C29_OneCardPerOption ==
    Displayed
    => /\ Len(cards) = Len(response.body.options)
       /\ \A i \in 1..Len(cards) :
              /\ cards[i].bedtime = response.body.options[i].bedtime
              /\ cards[i].cycles = response.body.options[i].cycles
              /\ cards[i].recommended <=> response.body.options[i].recommended
              /\ cards[i].wakeTime = response.body.wake_time
              /\ cards[i].id = created - Len(cards) + i

\* a list of three options, the second recommended, displayed in place of
\* the cards of an earlier response
C29_Witness ==
    /\ Displayed
    /\ Len(cards) = 3
    /\ created > Len(cards)
    /\ ~cards[1].recommended /\ cards[2].recommended

----------------------------------------------------------------------------
(* Results and error *)

\* no call is in flight and a submission has been made
NothingInFlight == fetchState = "idle" /\ submits > 0

\* C31: the results section and the error message are never visible at the
\* same time, and when a submission has settled exactly one of the two is
\* visible: the results after a success, the error after a validation
\* failure or a failed call
C31_ResultsXorError ==
    /\ ~(resultsVisible /\ errorVisible)
    /\ NothingInFlight
       => /\ resultsVisible # errorVisible
          /\ resultsVisible <=> validation.valid /\ Displayed
          /\ errorVisible <=> ~validation.valid \/ ~Displayed

\* results were shown, and a later submission settled with an error
C31_Witness ==
    /\ NothingInFlight
    /\ errorVisible /\ ~resultsVisible
    /\ cards # <<>>
    /\ submits >= 2

----------------------------------------------------------------------------
(* The course of a countdown *)

\* C32: a candidate that is Active, and whose result set stays rendered,
\* never becomes Past: it stays Active until the tick at which it becomes
\* Due
C32_ActiveNeverPast ==
    [][\A i \in 1..Len(cards) : \A j \in 1..Len(cards') :
           cards[i].id = cards'[j].id /\ cards[i].countdown.class = "active"
           => cards'[j].countdown.class # "past"]_vars

----------------------------------------------------------------------------
(* Countdown and calendar export *)

\* the countdown of the card was evaluated at the instant at which the
\* calendar file of its bedtime was generated
SameNow(card) ==
    /\ ics # NoIcs
    /\ card.bedtime = ics.bedtime
    /\ card.countdown.at = Generated

\* C33: the countdown and the calendar export agree on when a bedtime
\* occurs: where the countdown, evaluated at the same now, reports the
\* candidate as not past with R minutes remaining, the event starts R
\* minutes after now, to the minute, so never a day apart
C33_CountdownAndExportAgree ==
    \A i \in 1..Len(cards) :
        SameNow(cards[i]) /\ ~cards[i].countdown.until.isPast
        => /\ Start - Generated >= cards[i].countdown.until.totalMinutes * MsPerMinute
           /\ Start - Generated < (cards[i].countdown.until.totalMinutes + 1) * MsPerMinute

\* an export of a bedtime that the countdown moved to tomorrow
C33_Witness ==
    \E i \in 1..Len(cards) :
        /\ SameNow(cards[i])
        /\ ~cards[i].countdown.until.isPast
        /\ BedtimeToday < Generated
        /\ cards[i].countdown.until.totalMinutes > HalfDay \div MsPerMinute

\* an export of a bedtime that is now, the countdown showing zero minutes
C33_WitnessDue ==
    \E i \in 1..Len(cards) :
        SameNow(cards[i]) /\ cards[i].countdown.until.totalMinutes = 0

----------------------------------------------------------------------------
(* One call at a time *)

\* the outcome on the page is that of the call of the latest submission
OfLatestSubmission ==
    /\ controller = calls
    /\ validation.valid => requestBody = Stringify(formData)
    /\ resultsVisible => validation.valid /\ Displayed
    /\ errorVisible /\ validation.valid
       => response.event \in {"aborted", "rejected", "body", "bodyfailed"}

\* C34: with submit events only while the submit control is enabled, a call
\* is started and a submission is made only while no call is in flight, so
\* at most one call is in flight, and the results or the error shown after
\* a call settles belong to the most recent submission
C34_OneCallInFlight ==
    /\ [](fetchState = "idle" => OfLatestSubmission)
    /\ [][submits' # submits => fetchState = "idle"]_vars
    /\ [][calls' # calls => fetchState = "idle" /\ fetchState' = "pending"]_vars

\* the second call has settled with results after the first ended in an
\* error
C34_Witness ==
    /\ submits = 2 /\ calls = 2
    /\ Settled("body") /\ resultsVisible
    /\ cards # <<>>
    /\ errorText # <<>>

----------------------------------------------------------------------------
(* Abort timers *)

\* this step is the timeout callback of the abort timer t
Fires(t) == t \in abortTimers /\ abortTimers' = abortTimers \ {t}

\* the abort timer t is of an earlier call, or of a call that has settled
Stale(t) == t.ctl # controller \/ fetchState = "idle"

\* C35: the abort timer of a call can abort only that call: a stale timer,
\* left by a call that failed before it was cleared, changes nothing of a
\* later call or of a settled one when it fires, and a call ends as timed
\* out only by its own timer while it is in flight
C35_TimerAbortsOwnCallOnly ==
    [][\A t \in abortTimers :
           Fires(t)
           => /\ Stale(t)
                 => UNCHANGED <<response, fetchState, errorVisible, errorText,
                                resultsVisible, btnDisabled, btnLoading, cards,
                                controller, calls>>
              /\ response' # response /\ response'.event = "aborted"
                 => t.ctl = controller /\ fetchState = "pending"]_vars

\* the timer of an earlier, failed call is due while a later call is in
\* flight and the later call's own timer is not
C35_Witness ==
    /\ fetchState = "pending"
    /\ \E t \in abortTimers : t.ctl < controller /\ Due(t)
    /\ \E t \in abortTimers : t.ctl = controller /\ ~Due(t)

----------------------------------------------------------------------------
(* Who is notified *)

\* in this step the countdown of card is evaluated, at its creation or at a
\* tick, and finds it Due
BecomesDue(card) ==
    /\ card.countdown.class = "now"
    /\ \A i \in 1..Len(cards) :
           cards[i].id = card.id => cards[i].countdown.at # card.countdown.at

\* in this step a bedtime notification is made for the card
Notified(card) ==
    \E n \in notifications' \ notifications : n.kind = "bedtime" /\ n.card = card.id

====
